---- MODULE Spec2Model ----
(***************************************************************************)
(* The task tracking REST service of backend/app.py: an in-memory list of  *)
(* task dictionaries and the next-id counter, with one action per request  *)
(* handler.  Handlers run one at a time (serialized dispatch).             *)
(***************************************************************************)
EXTENDS Integers, Sequences, FiniteSets, TLC

\* Number of requests served in a behaviour.
MaxRequests == 3

-----------------------------------------------------------------------------
(* JSON values as Python sees them after request.get_json().               *)

JNull == [type |-> "null", val |-> "null"]
JBool(b) == [type |-> "bool", val |-> IF b THEN "true" ELSE "false"]
JStr(s) == [type |-> "string", val |-> s]

\* Python None: what get_json() yields when the request carries no body.
None == JNull

\* Python truth value of a JSON scalar.
Truthy(v) == v \notin {JNull, JBool(FALSE), JStr("")}

\* Python `not v`.
PyNot(v) == JBool(~Truthy(v))

\* Python truth value of get_json()'s result: None and {} are false.
DataTruthy(data) == data # None /\ DOMAIN data # {}

\* dict.get(key, default)
DictGet(data, key, default) == IF key \in DOMAIN data THEN data[key] ELSE default

-----------------------------------------------------------------------------
(* Request inputs.                                                         *)

\* JSON objects with exactly the keys K, the value of key k drawn from V[k].
Objects(K, V) == {d \in [K -> UNION {V[k] : k \in K}] : \A k \in K : d[k] \in V[k]}

\* Bodies sent to POST /api/tasks: a title (possibly empty), an optional
\* description, an optional completed (false, as the tests send it, or null).
CreateValues ==
  [title |-> {JStr("Test Task"), JStr("")},
   description |-> {JStr("x")},
   completed |-> {JBool(FALSE), JNull}]

\* Bodies sent to PUT /api/tasks/<id>: any subset of title, description and
\* completed, alone or together with the two keys the handler never reads.
UpdateValues ==
  [title |-> {JStr("Updated Title")},
   description |-> {JStr("Updated")},
   completed |-> {JBool(TRUE)},
   id |-> {JStr("1")},
   created_at |-> {JStr("1999-12-31T23:59:59")}]

\* What get_json() can return: None (no body) or a JSON object.
CreatePayloads == {None} \cup UNION {Objects(K, CreateValues) : K \in SUBSET DOMAIN CreateValues}
UpdatePayloads ==
  {None} \cup UNION {Objects(K \cup E, UpdateValues) :
                       K \in SUBSET {"title", "description", "completed"},
                       E \in {{}, {"id", "created_at"}}}

\* How the handlers see the body: absent, {} or an object with keys.
BodyOf(data) == IF data = None THEN "none" ELSE IF DOMAIN data = {} THEN "empty" ELSE "object"

-----------------------------------------------------------------------------
VARIABLES
  tasks,         \* the module-level list `tasks`
  task_counter,  \* the module-level `task_counter`
  clock,         \* requests served so far; datetime.now() reads it
  request,       \* the request last dispatched: [op, task_id, body]
  response,      \* the response to it: [status, body]
  assigned,      \* history: every id ever given to a task
  deleted,       \* history: ids whose Delete answered 200
  created,       \* history: id -> record returned by Create, while untouched
  toggled,       \* history: id -> completed before the last Toggle, while untouched
  tasks_obj,     \* which list object the name `tasks` of app.py is bound to; 0 is
                 \* the list made at line 11, each rebinding makes the next
  imported,      \* the contents of list object 0, which `from app import tasks`
                 \* binds in the test module
  threads        \* the handler invocations in flight when requests overlap

vars == <<tasks, task_counter, clock, request, response, assigned, deleted, created, toggled,
          tasks_obj, imported, threads>>

\* datetime.now().isoformat()
Isoformat(c) == JStr("2024-01-02T00:00:0" \o ToString(c))

SeedTasks == <<
  [id |-> 1, title |-> JStr("Learn Flask"), description |-> JStr("Build a REST API with Flask"),
   completed |-> JBool(FALSE), created_at |-> JStr("2024-01-01T10:00:00")],
  [id |-> 2, title |-> JStr("Learn React"), description |-> JStr("Create a frontend with React"),
   completed |-> JBool(FALSE), created_at |-> JStr("2024-01-01T11:00:00")],
  [id |-> 3, title |-> JStr("Setup CI/CD"), description |-> JStr("Configure GitHub Actions"),
   completed |-> JBool(TRUE), created_at |-> JStr("2024-01-01T12:00:00")] >>

EmptyMap == [i \in {} |-> JNull]

\* Two requests in flight at once.
Threads == {1, 2}

NoTask == [id |-> 0, title |-> JNull, description |-> JNull, completed |-> JNull,
           created_at |-> JNull]

\* a handler invocation: its position, its request, its locals, its status
Idle == [pc |-> "idle", op |-> "none", task_id |-> 0, new_task |-> NoTask,
         filtered |-> <<>>, counter |-> 0, status |-> 0]

IdsOf(ts) == {ts[i].id : i \in 1..Len(ts)}

Init ==
  /\ tasks = SeedTasks
  /\ task_counter = 4
  /\ clock = 0
  /\ request = [op |-> "start", task_id |-> 0, body |-> "none"]
  /\ response = [status |-> 0, body |-> [message |-> "started"]]
  /\ assigned = IdsOf(SeedTasks)
  /\ deleted = {}
  /\ created = EmptyMap
  /\ toggled = EmptyMap
  /\ tasks_obj = 0
  /\ imported = SeedTasks
  /\ threads = [t \in Threads |-> Idle]

-----------------------------------------------------------------------------
(* Fragments of the handlers.                                              *)

\* the id is used as a position in the list
FindTask_ByPosition(ts, task_id) == IF task_id \in 1..Len(ts) THEN task_id ELSE 0

\* next((t for t in tasks if t['id'] == task_id), None): index of the first
\* match, 0 for None.
FindTask(ts, task_id) ==
  IF \E i \in 1..Len(ts) : ts[i].id = task_id
  THEN CHOOSE i \in 1..Len(ts) :
         /\ ts[i].id = task_id
         /\ \A j \in 1..(i - 1) : ts[j].id # task_id
  ELSE 0

\* a not-found reply sent without its status code
NotFound_NoStatus == [status |-> 200, body |-> [error |-> "Task not found"]]

\* return jsonify({"error": "Task not found"}), 404
NotFound == [status |-> 404, body |-> [error |-> "Task not found"]]

\* the 500 error handler: what an exception escaping a handler becomes
InternalError == [status |-> 500, body |-> [error |-> "Internal server error"]]

\* only the emptiness of the body is tested, not the presence of the key
TitleMissing_NoKeyTest(data) == ~DataTruthy(data)

\* `not data or 'title' not in data`
TitleMissing(data) == ~DataTruthy(data) \/ "title" \notin DOMAIN data

\* the id is taken from the size of the list
NewTaskId_Len == Len(tasks) + 1

\* the id is taken from the largest id in the list
NewTaskId_Max ==
  IF tasks = <<>> THEN 1
  ELSE (CHOOSE m \in IdsOf(tasks) : \A k \in IdsOf(tasks) : k <= m) + 1

\* "id": task_counter
NewTaskId == task_counter

\* the defaults are applied with `or`, which also replaces a supplied null
NewTask_OrDefaults(data) ==
  [id |-> NewTaskId,
   title |-> data["title"],
   description |-> IF Truthy(DictGet(data, "description", JStr("")))
                   THEN data["description"] ELSE JStr(""),
   completed |-> IF Truthy(DictGet(data, "completed", JBool(FALSE)))
                 THEN data["completed"] ELSE JBool(FALSE),
   created_at |-> Isoformat(clock)]

\* the dict literal new_task
NewTask(data) ==
  [id |-> NewTaskId,
   title |-> data["title"],
   description |-> DictGet(data, "description", JStr("")),
   completed |-> DictGet(data, "completed", JBool(FALSE)),
   created_at |-> Isoformat(clock)]

\* only a missing body is rejected
NoData_IsNone(data) == data = None

\* `not data` in update_task
NoData(data) == ~DataTruthy(data)

\* absent keys fall back to the defaults of create_task
UpdatedTask_Defaults(task, data) ==
  [task EXCEPT !.title = DictGet(data, "title", task.title),
               !.description = DictGet(data, "description", JStr("")),
               !.completed = DictGet(data, "completed", JBool(FALSE))]

\* every key of the body is copied into the task (task.update(data)), the
\* creation stamp included
UpdatedTask_CopyAll(task, data) ==
  [task EXCEPT !.title = DictGet(data, "title", task.title),
               !.description = DictGet(data, "description", task.description),
               !.completed = DictGet(data, "completed", task.completed),
               !.created_at = DictGet(data, "created_at", task.created_at)]

\* the three assignments of update_task
UpdatedTask(task, data) ==
  [task EXCEPT !.title = DictGet(data, "title", task.title),
               !.description = DictGet(data, "description", task.description),
               !.completed = DictGet(data, "completed", task.completed)]

\* task['completed'] = not task['completed']
ToggledTask(task) == [task EXCEPT !.completed = PyNot(task.completed)]

\* the new task is put in front of the list
Appended_Front(ts, task) == <<task>> \o ts

\* tasks.append(new_task)
Appended(ts, task) == Append(ts, task)

\* the task is removed by position: del tasks[task_id - 1]
Without_ByPosition(ts, task_id) ==
  IF task_id \in 1..Len(ts)
  THEN SubSeq(ts, 1, task_id - 1) \o SubSeq(ts, task_id + 1, Len(ts))
  ELSE ts

\* [t for t in tasks if t['id'] != task_id]
Without(ts, task_id) == SelectSeq(ts, LAMBDA t : t.id # task_id)

\* history maps
Drop(m, k) == [i \in DOMAIN m \ {k} |-> m[i]]
Put(m, k, v) == [i \in DOMAIN m \cup {k} |-> IF i = k THEN v ELSE m[i]]

\* total of get_tasks: len(tasks)
ListTotal(ts) == Len(ts)

Served(op, task_id, data) ==
  /\ clock < MaxRequests
  /\ clock' = clock + 1
  /\ request' = [op |-> op, task_id |-> task_id, body |-> BodyOf(data)]

-----------------------------------------------------------------------------
(* The handlers.                                                           *)

health_check ==
  /\ Served("health", 0, None)
  /\ response' = [status |-> 200,
                  body |-> [status |-> "healthy", timestamp |-> Isoformat(clock)]]
  /\ UNCHANGED <<tasks, task_counter, assigned, deleted, created, toggled>>

\* the list is reversed in place to show the newest task first
get_tasks_NewestFirst ==
  /\ Served("list", 0, None)
  /\ tasks' = [i \in 1..Len(tasks) |-> tasks[Len(tasks) + 1 - i]]
  /\ response' = [status |-> 200, body |-> [tasks |-> tasks', total |-> ListTotal(tasks')]]
  /\ UNCHANGED <<task_counter, assigned, deleted, created, toggled>>

get_tasks ==
  /\ Served("list", 0, None)
  /\ response' = [status |-> 200, body |-> [tasks |-> tasks, total |-> ListTotal(tasks)]]
  /\ UNCHANGED <<tasks, task_counter, assigned, deleted, created, toggled>>

get_task(task_id) ==
  /\ Served("get", task_id, None)
  /\ LET i == FindTask(tasks, task_id) IN
       response' = IF i # 0 THEN [status |-> 200, body |-> tasks[i]] ELSE NotFound
  /\ UNCHANGED <<tasks, task_counter, assigned, deleted, created, toggled>>

\* the counter is advanced before the body is validated
create_task_CountsFirst(data) ==
  /\ Served("create", 0, data)
  /\ task_counter' = task_counter + 1
  /\ IF TitleMissing(data)
     THEN /\ response' = [status |-> 400, body |-> [error |-> "Title is required"]]
          /\ UNCHANGED <<tasks, assigned, created, toggled>>
     ELSE LET new_task == NewTask(data) IN
          /\ tasks' = Appended(tasks, new_task)
          /\ response' = [status |-> 201, body |-> new_task]
          /\ assigned' = assigned \cup {new_task.id}
          /\ created' = Put(created, new_task.id, new_task)
          /\ toggled' = Drop(toggled, new_task.id)
  /\ UNCHANGED deleted

create_task(data) ==
  /\ Served("create", 0, data)
  /\ IF TitleMissing(data)
     THEN /\ response' = [status |-> 400, body |-> [error |-> "Title is required"]]
          /\ UNCHANGED <<tasks, task_counter, assigned, created, toggled>>
     ELSE IF "title" \notin DOMAIN data
     THEN \* data['title'] raises KeyError
          /\ response' = InternalError
          /\ UNCHANGED <<tasks, task_counter, assigned, created, toggled>>
     ELSE LET new_task == NewTask(data) IN
          /\ tasks' = Appended(tasks, new_task)
          /\ task_counter' = task_counter + 1
          /\ response' = [status |-> 201, body |-> new_task]
          /\ assigned' = assigned \cup {new_task.id}
          /\ created' = Put(created, new_task.id, new_task)
          /\ toggled' = Drop(toggled, new_task.id)
  /\ UNCHANGED deleted

update_task(task_id, data) ==
  /\ Served("update", task_id, data)
  /\ LET i == FindTask(tasks, task_id) IN
       IF i = 0
       THEN /\ response' = NotFound
            /\ UNCHANGED <<tasks, created, toggled>>
       ELSE IF NoData(data)
       THEN /\ response' = [status |-> 400, body |-> [error |-> "No data provided"]]
            /\ UNCHANGED <<tasks, created, toggled>>
       ELSE LET task == UpdatedTask(tasks[i], data) IN
            /\ tasks' = [tasks EXCEPT ![i] = task]
            /\ response' = [status |-> 200, body |-> task]
            /\ created' = Drop(created, task_id)
            /\ toggled' = Drop(toggled, task_id)
  /\ UNCHANGED <<task_counter, assigned, deleted>>

delete_task(task_id) ==
  /\ Served("delete", task_id, None)
  /\ LET i == FindTask(tasks, task_id) IN
       IF i = 0
       THEN /\ response' = NotFound
            /\ UNCHANGED <<tasks, deleted, created, toggled>>
       ELSE /\ tasks' = Without(tasks, task_id)
            /\ response' = [status |-> 200, body |-> [message |-> "Task deleted successfully"]]
            /\ deleted' = deleted \cup {task_id}
            /\ created' = Drop(created, task_id)
            /\ toggled' = Drop(toggled, task_id)
  /\ UNCHANGED <<task_counter, assigned>>

toggle_task(task_id) ==
  /\ Served("toggle", task_id, None)
  /\ LET i == FindTask(tasks, task_id) IN
       IF i = 0
       THEN /\ response' = NotFound
            /\ UNCHANGED <<tasks, created, toggled>>
       ELSE LET task == ToggledTask(tasks[i]) IN
            /\ tasks' = [tasks EXCEPT ![i] = task]
            /\ response' = [status |-> 200, body |-> task]
            /\ created' = Drop(created, task_id)
            /\ toggled' = Put(toggled, task_id, tasks[i].completed)
  /\ UNCHANGED <<task_counter, assigned, deleted>>

\* Ids a request can name: every id assigned so far and the next one, which
\* no task has yet.
TaskIds == 1..task_counter

\* One request at a time, seen through its response only: no handler is in
\* flight between two steps and no test module holds the list.
Alone == UNCHANGED <<tasks_obj, imported, threads>>

Next ==
  \/ health_check /\ Alone
  \/ get_tasks /\ Alone
  \/ \E task_id \in TaskIds : get_task(task_id) /\ Alone
  \/ \E data \in CreatePayloads : create_task(data) /\ Alone
  \/ \E task_id \in TaskIds, data \in UpdatePayloads : update_task(task_id, data) /\ Alone
  \/ \E task_id \in TaskIds : delete_task(task_id) /\ Alone
  \/ \E task_id \in TaskIds : toggle_task(task_id) /\ Alone

Spec == Init /\ [][Next]_vars

-----------------------------------------------------------------------------
(* The test module's view: `from app import tasks` binds the list object   *)
(* the service had at import time, and its fixture clears that object.     *)

\* The list delete_task builds is a new object; every other handler works
\* on the object the name `tasks` is bound to.
Rebound == request'.op = "delete" /\ response'.status = 200

\* The imported object after a handler ran.  While the service still uses it,
\* it is the collection; afterwards it keeps its own items, which are the
\* same dicts the service mutates in place.
Held ==
  IF tasks_obj = 0 /\ ~Rebound
  THEN tasks'
  ELSE [i \in 1..Len(imported) |->
          LET j == FindTask(tasks', imported[i].id) IN
            IF j # 0 THEN tasks'[j] ELSE imported[i]]

Watched ==
  /\ imported' = Held
  /\ tasks_obj' = IF Rebound THEN tasks_obj + 1 ELSE tasks_obj
  /\ UNCHANGED threads

\* the fixture `client`: tasks.clear() on the imported object; its
\* `task_counter = 1` binds the test module's own name, not the service's
client ==
  /\ Served("reset", 0, None)
  /\ imported' = <<>>
  /\ tasks' = IF tasks_obj = 0 THEN <<>> ELSE tasks
  /\ UNCHANGED <<task_counter, response, assigned, deleted, created, toggled,
                 tasks_obj, threads>>

FixtureNext ==
  \/ client
  \/ health_check /\ Watched
  \/ get_tasks /\ Watched
  \/ \E task_id \in TaskIds : get_task(task_id) /\ Watched
  \/ \E data \in CreatePayloads : create_task(data) /\ Watched
  \/ \E task_id \in TaskIds, data \in UpdatePayloads : update_task(task_id, data) /\ Watched
  \/ \E task_id \in TaskIds : delete_task(task_id) /\ Watched
  \/ \E task_id \in TaskIds : toggle_task(task_id) /\ Watched

FixtureSpec == Init /\ [][FixtureNext]_vars

-----------------------------------------------------------------------------
(* Overlapping requests: two handler invocations whose statements          *)
(* interleave.  A step is one read or one write of the module's globals.   *)

Goto(t, rec) == threads' = [threads EXCEPT ![t] = rec]

Serving == UNCHANGED <<clock, request, response, assigned, created, toggled, imported>>

\* create_task, lines 46-56: the body is read and validated, and the dict
\* literal reads task_counter for the id
c_build(t, data) ==
  /\ threads[t].pc = "idle"
  /\ IF TitleMissing(data)
     THEN Goto(t, [threads[t] EXCEPT !.pc = "done", !.op = "create", !.status = 400])
     ELSE Goto(t, [threads[t] EXCEPT !.pc = "append", !.op = "create",
                                     !.new_task = NewTask(data)])
  /\ UNCHANGED <<tasks, task_counter, deleted, tasks_obj>>
  /\ Serving

\* line 58: tasks.append(new_task), on the list the name is bound to now
c_append(t) ==
  /\ threads[t].pc = "append"
  /\ tasks' = Appended(tasks, threads[t].new_task)
  /\ Goto(t, [threads[t] EXCEPT !.pc = "load_counter"])
  /\ UNCHANGED <<task_counter, deleted, tasks_obj>>
  /\ Serving

\* line 59, task_counter += 1: the read
c_load_counter(t) ==
  /\ threads[t].pc = "load_counter"
  /\ Goto(t, [threads[t] EXCEPT !.pc = "store_counter", !.counter = task_counter])
  /\ UNCHANGED <<tasks, task_counter, deleted, tasks_obj>>
  /\ Serving

\* line 59, task_counter += 1: the write; line 61 answers 201
c_store_counter(t) ==
  /\ threads[t].pc = "store_counter"
  /\ task_counter' = threads[t].counter + 1
  /\ Goto(t, [threads[t] EXCEPT !.pc = "done", !.status = 201])
  /\ UNCHANGED <<tasks, deleted, tasks_obj>>
  /\ Serving

\* delete_task, lines 85-87: the lookup
d_find(t, task_id) ==
  /\ threads[t].pc = "idle"
  /\ IF FindTask(tasks, task_id) = 0
     THEN Goto(t, [threads[t] EXCEPT !.pc = "done", !.op = "delete", !.task_id = task_id,
                                     !.status = 404])
     ELSE Goto(t, [threads[t] EXCEPT !.pc = "filter", !.op = "delete", !.task_id = task_id])
  /\ UNCHANGED <<tasks, task_counter, deleted, tasks_obj>>
  /\ Serving

\* line 89, right-hand side: the filtered list is built from the list bound now
d_filter(t) ==
  /\ threads[t].pc = "filter"
  /\ Goto(t, [threads[t] EXCEPT !.pc = "rebind",
                                  !.filtered = Without(tasks, threads[t].task_id)])
  /\ UNCHANGED <<tasks, task_counter, deleted, tasks_obj>>
  /\ Serving

\* line 89, the assignment: the name is bound to the new list; line 90
\* answers 200
d_rebind(t) ==
  /\ threads[t].pc = "rebind"
  /\ tasks' = threads[t].filtered
  /\ tasks_obj' = tasks_obj + 1
  /\ deleted' = deleted \cup {threads[t].task_id}
  /\ Goto(t, [threads[t] EXCEPT !.pc = "done", !.status = 200])
  /\ UNCHANGED task_counter
  /\ Serving

ConcNext ==
  \E t \in Threads :
    \/ \E data \in CreatePayloads : c_build(t, data)
    \/ c_append(t)
    \/ c_load_counter(t)
    \/ c_store_counter(t)
    \/ \E task_id \in TaskIds : d_find(t, task_id)
    \/ d_filter(t)
    \/ d_rebind(t)

ConcSpec == Init /\ [][ConcNext]_vars

-----------------------------------------------------------------------------
(* Properties.                                                             *)

HasTask(ts, task_id) == task_id \in IdsOf(ts)
TaskOf(ts, task_id) == ts[FindTask(ts, task_id)]
NoDuplicateIds(ts) == \A i, j \in 1..Len(ts) : ts[i].id = ts[j].id => i = j
IsError(r) == "error" \in DOMAIN r.body

CreateOk == request'.op = "create" /\ response'.status = 201

\* C1: a successful Create returns an id greater than every id assigned
\* before it, seed ids and ids of deleted tasks included; the tasks of the
\* collection have pairwise distinct ids and a deleted id is never given again.
C1_CreatedIdIsFresh ==
  /\ [][CreateOk =>
          /\ \A i \in assigned : response'.body.id > i
          /\ response'.body.id \notin deleted]_vars
  /\ [](NoDuplicateIds(tasks) /\ IdsOf(tasks) \subseteq assigned)

\* a second Create has succeeded after a Delete
C1_Witness ==
  /\ request.op = "create" /\ response.status = 201
  /\ deleted # {}
  /\ response.body.id > 4

\* C2: Get, Update, Delete and Toggle of an id no task has answer 404 with
\* an error field, whatever the body of the Update.
C2_AbsentIdIs404 ==
  [][(request'.op \in {"get", "update", "delete", "toggle"} /\ ~HasTask(tasks, request'.task_id))
       => (response'.status = 404 /\ IsError(response'))]_vars

\* an Update without body, addressed to a deleted id, was answered 404
C2_Witness ==
  /\ request.op = "update" /\ request.body = "none"
  /\ request.task_id \in deleted
  /\ response.status = 404

\* C3: a Create whose body is absent or has no title key answers 400 with
\* an error field.
C3_NoTitleIs400 ==
  [][request'.op = "create" =>
       \A data \in CreatePayloads :
         (create_task(data) /\ (data = None \/ "title" \notin DOMAIN data))
           => (response'.status = 400 /\ IsError(response'))]_vars

\* a Create with a body but no title was refused after the store had changed
C3_Witness ==
  /\ request.op = "create" /\ request.body = "object"
  /\ response.status = 400
  /\ tasks # SeedTasks

\* C4: a successful Delete lowers the total of List by exactly one, and every
\* later Get of the deleted id answers 404.
C4_DeletedStaysGone ==
  [][/\ (request'.op = "delete" /\ response'.status = 200)
          => ListTotal(tasks') = ListTotal(tasks) - 1
     /\ (request'.op = "get" /\ request'.task_id \in deleted)
          => response'.status = 404]_vars

\* a Get of a deleted id was answered 404 while the collection holds a task
\* with a larger id that a Create added
C4_Witness ==
  /\ request.op = "get" /\ request.task_id \in deleted
  /\ response.status = 404
  /\ \E i \in 1..Len(tasks) : tasks[i].id > request.task_id /\ tasks[i].id >= 4

UpdatableFields == {"title", "description", "completed"}

\* C5: a successful Update sets every field among title, description and
\* completed whose key is in the body to the supplied value and leaves the
\* others of the three as they were.  The body of the step is any body that
\* the handler accepts and that yields the task found after the step.
C5_UpdateOnlySupplied ==
  [][(request'.op = "update" /\ response'.status = 200) =>
       \A i \in {FindTask(tasks, request'.task_id)} :
         /\ i # 0 /\ i <= Len(tasks') /\ tasks'[i].id = request'.task_id
         /\ \A data \in UpdatePayloads :
              (~NoData(data) /\ tasks'[i] = UpdatedTask(tasks[i], data))
                => \A f \in UpdatableFields :
                     tasks'[i][f] = IF f \in DOMAIN data THEN data[f] ELSE tasks[i][f]]_vars

\* an Update has set completed of seed task 1 and kept its title and description
C5_Witness ==
  /\ request.op = "update" /\ request.task_id = 1 /\ response.status = 200
  /\ response.body.completed = JBool(TRUE)
  /\ response.body.title = SeedTasks[1].title
  /\ response.body.description = SeedTasks[1].description
  /\ TaskOf(tasks, 1) = response.body

ToggleOk == request'.op = "toggle" /\ response'.status = 200

\* C6: a Toggle returns the opposite of the task's completed, and a second
\* Toggle of the same task, nothing else having changed the task in between,
\* brings completed back to the value it had before the first.
C6_ToggleIsInvolution ==
  [][ToggleOk =>
       LET old == TaskOf(tasks, request'.task_id).completed
           new == TaskOf(tasks', request'.task_id).completed IN
       /\ new # old
       /\ response'.body.completed = new
       /\ request'.task_id \in DOMAIN toggled => new = toggled[request'.task_id]]_vars

\* C7: a Get of an id that a Create returned, with no Update, Toggle or
\* Delete of that id since, answers 200 with the id, title, description and
\* completed of the record the Create returned.
C7_CreateThenGet ==
  (request.op = "get" /\ request.task_id \in DOMAIN created)
    => /\ response.status = 200
       /\ response.body.id = request.task_id
       /\ response.body.id = created[request.task_id].id
       /\ \A f \in UpdatableFields : response.body[f] = created[request.task_id][f]

\* a created task with a supplied description was fetched after a Delete of
\* another id
C7_Witness ==
  /\ request.op = "get" /\ request.task_id \in DOMAIN created
  /\ response.status = 200
  /\ response.body.description = JStr("x")
  /\ deleted # {}

\* C8: while a task is in the collection its id and created_at stay the
\* same; an Update or a Toggle changes neither field of any task.
C8_IdAndStampFixed ==
  [][/\ \A i \in 1..Len(tasks), j \in 1..Len(tasks') :
          tasks'[j].id = tasks[i].id => tasks'[j].created_at = tasks[i].created_at
     /\ request'.op \in {"update", "toggle"}
          => /\ Len(tasks') = Len(tasks)
             /\ \A i \in 1..Len(tasks) :
                  /\ tasks'[i].id = tasks[i].id
                  /\ tasks'[i].created_at = tasks[i].created_at]_vars

\* an Update has changed the title of a task that a Create added
C8_Witness ==
  /\ request.op = "update" /\ response.status = 200
  /\ request.task_id >= 4
  /\ response.body.title = JStr("Updated Title")
  /\ response.body.created_at \in {Isoformat(c) : c \in 0..MaxRequests}

UpdateExisting == request'.op = "update" /\ HasTask(tasks, request'.task_id)

\* C9 as stated: an Update of an existing id answers 400 exactly when no body
\* is given, and 200 whenever a JSON object is given, the empty one included.
C9_400OnlyWithoutBody ==
  [][UpdateExisting =>
       /\ response'.status = 400 <=> request'.body = "none"
       /\ request'.body # "none" => response'.status = 200]_vars

\* C9 amended: an Update of an existing id answers 400 exactly when no body
\* is given or the body is the empty object; with a non-empty object it
\* answers 200 with the updated record.
C9_400WithoutData ==
  [][UpdateExisting =>
       /\ response'.status = 400 <=> request'.body \in {"none", "empty"}
       /\ request'.body = "object"
            => /\ response'.status = 200
               /\ response'.body = TaskOf(tasks', request'.task_id)]_vars

\* an Update of an existing task with the body {} was answered 400
C9_Witness ==
  /\ request.op = "update" /\ request.body = "empty"
  /\ HasTask(tasks, request.task_id)
  /\ response.status = 400

\* C10: every task of the collection has a non-empty title.
C10_TitleNonEmpty ==
  \A i \in 1..Len(tasks) : tasks[i].title.type = "string" /\ tasks[i].title.val # ""

StrictlyIncreasingIds(ts) == \A i, j \in 1..Len(ts) : i < j => ts[i].id < ts[j].id

\* C11: List returns the tasks of the collection, each once, in the order of
\* their creation, so with strictly increasing ids, and total is the number of
\* tasks returned.
C11_ListIsWholeCollection ==
  [][request'.op = "list" =>
       /\ response'.status = 200
       /\ response'.body.tasks = tasks
       /\ StrictlyIncreasingIds(response'.body.tasks)
       /\ \A task_id \in assigned \ deleted :
            Cardinality({i \in 1..Len(response'.body.tasks) :
                           response'.body.tasks[i].id = task_id}) = 1
       /\ response'.body.total = Len(response'.body.tasks)]_vars

\* List was answered after a Create and a Delete
C11_Witness ==
  /\ request.op = "list" /\ response.status = 200
  /\ deleted # {}
  /\ \E i \in 1..Len(response.body.tasks) : response.body.tasks[i].id >= 4

\* C12: a Create whose body has a title answers 201 and appends one record
\* whose id is the counter, whose title is the supplied one, whose description
\* and completed are the supplied ones or "" and false; the counter grows by
\* one.
C12_CreateAppendsRecord ==
  [][request'.op = "create" =>
       \A data \in CreatePayloads :
         (create_task(data) /\ data # None /\ "title" \in DOMAIN data)
           => /\ response'.status = 201
              /\ Len(tasks') = Len(tasks) + 1
              /\ SubSeq(tasks', 1, Len(tasks)) = tasks
              /\ LET rec == tasks'[Len(tasks')] IN
                   /\ rec.id = task_counter
                   /\ rec.title = data["title"]
                   /\ rec.description =
                        IF "description" \in DOMAIN data THEN data["description"] ELSE JStr("")
                   /\ rec.completed =
                        IF "completed" \in DOMAIN data THEN data["completed"] ELSE JBool(FALSE)
                   /\ response'.body = rec
              /\ task_counter' = task_counter + 1]_vars

\* a second Create has appended a record with a supplied description and the
\* default completed
C12_Witness ==
  /\ request.op = "create" /\ response.status = 201
  /\ response.body.id = 5 /\ task_counter = 6
  /\ response.body.description = JStr("x")
  /\ response.body.completed = JBool(FALSE)
  /\ tasks[Len(tasks)] = response.body

Failed == response'.status \in {400, 404}

\* C13: a request answered 400 or 404 leaves the collection and the counter
\* as they were.
C13_FailureChangesNothing ==
  [][(request'.op \in {"get", "create", "update", "delete", "toggle"} /\ Failed)
       => (tasks' = tasks /\ task_counter' = task_counter)]_vars

\* a Create was refused after an earlier Create, and the counter still names
\* the id after that one
C13_Witness ==
  /\ request.op = "create" /\ response.status = 400
  /\ task_counter = 5 /\ assigned = 1..4

\* C14: a successful Delete removes the task of the id and nothing else, the
\* others keeping their fields and order, and leaves the counter; a
\* successful Update or Toggle changes no other task and keeps the length.
C14_OthersUntouched ==
  [][/\ (request'.op = "delete" /\ response'.status = 200)
          => /\ \E i \in 1..Len(tasks) :
                  /\ tasks[i].id = request'.task_id
                  /\ tasks' = SubSeq(tasks, 1, i - 1) \o SubSeq(tasks, i + 1, Len(tasks))
             /\ task_counter' = task_counter
     /\ (request'.op \in {"update", "toggle"} /\ response'.status = 200)
          => /\ Len(tasks') = Len(tasks)
             /\ \A i \in 1..Len(tasks) :
                  tasks[i].id # request'.task_id => tasks'[i] = tasks[i]
             /\ task_counter' = task_counter]_vars

\* a second Delete has succeeded and left one seed task and a created one
C14_Witness ==
  /\ request.op = "delete" /\ response.status = 200
  /\ Cardinality(deleted) = 2
  /\ Len(tasks) = 2 /\ tasks[2].id = 4

\* C18: Health check, List and Get leave the collection and the counter as
\* they were; Health check and List answer 200.
C18_ReadsChangeNothing ==
  [][request'.op \in {"health", "list", "get"} =>
       /\ tasks' = tasks
       /\ task_counter' = task_counter
       /\ request'.op \in {"health", "list"} => response'.status = 200]_vars

\* List was answered 200 after two Deletes, with the one task left
C18_Witness ==
  /\ request.op = "list" /\ response.status = 200
  /\ Cardinality(deleted) = 2
  /\ response.body.total = 1

Answered201(t) == threads[t].op = "create" /\ threads[t].status = 201

\* C15: two Creates whose steps interleave give their tasks distinct ids, and
\* the counter ends above both.
C15_ConcurrentCreatesDistinct ==
  (Answered201(1) /\ Answered201(2))
    => /\ threads[1].new_task.id # threads[2].new_task.id
       /\ task_counter > threads[1].new_task.id
       /\ task_counter > threads[2].new_task.id

\* C16: a task whose Create answered 201 is in the collection as long as no
\* Delete of its id has succeeded, also when a Delete of another id overlaps
\* the Create.
C16_CreatedTaskStays ==
  \A t \in Threads :
    (Answered201(t) /\ threads[t].new_task.id \notin deleted)
      => HasTask(tasks, threads[t].new_task.id)

\* C17: a List that follows the fixture's reset answers tasks == [] and
\* total == 0, whatever requests ran before the reset.
C17_ResetEmptiesCollection ==
  [][(request.op = "reset" /\ request'.op = "list")
       => /\ response'.body.tasks = <<>>
          /\ response'.body.total = 0]_vars

\* While the service still uses the imported list object, that object is the
\* collection.
ImportedIsCollection == tasks_obj = 0 => imported = tasks
====
